---- MODULE Spec2Model ----
(***************************************************************************)
(* Model of the stratum JSON-RPC client (client.rs, lib.rs, error.rs).     *)
(*                                                                         *)
(* Several callers share one Client.  build_request is split at the lock   *)
(* acquisition, the increment and the construction of the Request;         *)
(* send_request is split at its blocking points (each POST, the body read) *)
(* so that the calls of different callers interleave.                      *)
(***************************************************************************)
EXTENDS Integers, Sequences, FiniteSets, TLC

\* Number of build_request calls explored (the u64 counter itself is unbounded
\* for every practical purpose; its wraparound is never reached).
MaxNonce == 2

\* The threads that share the Client.
Callers == {"c1", "c2"}

NoCaller == "none"

----------------------------------------------------------------------------
(* serde_json::Value, Option                                               *)

Null == [t |-> "null", v |-> 0]

Bool(b) == [t |-> "bool", v |-> IF b THEN 1 ELSE 0]

\* Value::Number holding the integer n
Num(n) == [t |-> "num", v |-> n]

\* Value::String holding the decimal digits of n ("123" for 123)
Str(n) == [t |-> "str", v |-> n]

None == <<>>

Some(x) == <<x>>

is_some(o) == o # None

unwrap(o) == o[1]

\* impl From<u64> for Value, as used for the id of a built Request
ValueFromU64(n) == Num(n)

----------------------------------------------------------------------------
(* Wire types                                                              *)

\* The (method, params) pair each caller asks for; opaque to the client.
CallOf(c) ==
    IF c = "c1"
    THEN [method |-> "getinfo", params |-> <<>>]
    ELSE [method |-> "ping", params |-> <<Bool(TRUE)>>]

Request(method, params, id) == [method |-> method, params |-> params, id |-> id]

NoRequest == [method |-> "", params |-> <<>>, id |-> Null]

Response(result, error, id) == [result |-> result, error |-> error, id |-> id]

RpcError(code, message, data) == [code |-> code, message |-> message, data |-> data]

\* Result<T, E>
Ok(x) == [ok |-> TRUE, val |-> x]

Err(e) == [ok |-> FALSE, val |-> e]

----------------------------------------------------------------------------
(* error.rs: the library error and its conversions                         *)

\* Error::Json, Error::Hyper, Error::Io each carry the failure they wrap
ErrorJson(e) == [variant |-> "Json", cause |-> e]

ErrorHyper(e) == [variant |-> "Hyper", cause |-> e]

ErrorIo(e) == [variant |-> "Io", cause |-> e]

ErrorNonceMismatch == [variant |-> "NonceMismatch", cause |-> [variant |-> "none", kind |-> ""]]

\* impl From<serde_json::error::Error> for Error
FromJsonError(e) == ErrorJson(e)

\* impl From<hyper::error::Error> for Error
FromHyperError(e) == ErrorHyper(e)

\* A conversion that files a stream read failure under the transport
FromIoErrorAsHyper(e) == ErrorHyper(e)

\* impl From<io::Error> for Error
FromIoError(e) == ErrorIo(e)

----------------------------------------------------------------------------
(* The collaborators: serde_json, hyper, the response stream               *)

\* hyper::error::Error values the transport can report
HyperIo(kind) == [variant |-> "Io", kind |-> kind]

ConnectionAborted == HyperIo("ConnectionAborted")

TransportErrors == {ConnectionAborted, HyperIo("ConnectionRefused"), [variant |-> "Ssl", kind |-> ""]}

\* What one hyper_request.send() returns: a stream with a status, or an error
StatusCodes == {200, 500}

SendOutcomes == {Ok(s) : s \in StatusCodes} \cup {Err(e) : e \in TransportErrors}

\* serde_json failures and stream read failures
SyntaxError == [variant |-> "serde_json", kind |-> "syntax"]

SerializeError == [variant |-> "serde_json", kind |-> "serialize"]

ReadError == [variant |-> "io", kind |-> "UnexpectedEof"]

\* serde_json::to_string(request): the JSON text of a Request
RequestToString(r) ==
    [kind |-> "object", method |-> r.method, params |-> r.params, id |-> r.id]

\* A key that the JSON object does not have
Absent == [t |-> "absent", v |-> 0]

\* The JSON text of an error object {"code":..,"message":..,"data":..}
ErrorObject(code, message, data) ==
    [t |-> "object", code |-> code, message |-> message, data |-> data]

\* The JSON text of a response object; Garbage is a body that is no such text
ResponseText(result, error, id) ==
    [kind |-> "object", result |-> result, error |-> error, id |-> id]

Garbage == [kind |-> "garbage", result |-> Absent, error |-> Absent, id |-> Absent]

\* Deserialize for Option<Value>: null and a missing key both give None
OptionFromJson(j) == IF j \in {Null, Absent} THEN None ELSE Some(j)

\* Deserialize for Option<RpcError>
OptionErrorFromJson(j) ==
    IF j \in {Null, Absent}
    THEN None
    ELSE Some(RpcError(j.code, j.message, OptionFromJson(j.data)))

\* A decoder that refuses a response without exactly one of result and error
ResponseFromStrStrict(text) ==
    IF \/ text.kind # "object"
       \/ text.id = Absent
       \/ (text.result \in {Null, Absent}) = (text.error \in {Null, Absent})
    THEN Err(SyntaxError)
    ELSE Ok(Response(OptionFromJson(text.result),
                     OptionErrorFromJson(text.error),
                     text.id))

\* serde_json::from_str::<Response>: a body that is not a JSON object, or an
\* object without the required id, fails; unknown shapes of result are values
ResponseFromStr(text) ==
    IF text.kind # "object" \/ text.id = Absent
    THEN Err(SyntaxError)
    ELSE Ok(Response(OptionFromJson(text.result),
                     OptionErrorFromJson(text.error),
                     text.id))

\* The ids a server answers a request of id rid with: the id itself, another
\* number, the same digits as a string, null
OtherNumber(rid) == Num((rid.v % MaxNonce) + 1)

MismatchedIds(rid) == {OtherNumber(rid), Str(rid.v), Null}

\* The bodies a server sends in answer to a request of id rid
Bodies(rid) ==
    {Garbage}
    \cup { ResponseText(res, err, rid) :
             res \in {Null, Bool(TRUE)},
             err \in {Null, ErrorObject(-32601, "Method not found", Null)} }
    \cup { ResponseText(Bool(TRUE), Null, i) : i \in MismatchedIds(rid) }

----------------------------------------------------------------------------
(* State                                                                   *)

VARIABLES
    url,      \* Client.url
    user,     \* Client.user : Option<String>
    pass,     \* Client.pass : Option<String>
    nonce,    \* the u64 behind Client.nonce
    mutex,    \* the caller holding the lock of Client.nonce, or NoCaller
    pc,       \* where each caller is in the operation it is running
    req,      \* the Request a caller holds (built, or a clone of a built one)
    own,      \* whether the caller's Request came from its own build_request
    ret,      \* what the caller's last completed operation returned
    posts,    \* the POSTs the caller's send_request has issued, with their outcomes
    stream,   \* the response stream the transport delivered to the caller
    steps,    \* the steps the caller's send_request has executed, in order
    issued,   \* the ids handed out, in the order the lock was held
    resp,     \* the Response a user of the wire types has at hand
    origin,   \* the Response it was before it went through its JSON text
    tripped,  \* whether resp was produced by decoding a JSON text
    json,     \* the JSON text last produced from resp, if any
    applied   \* the last operation applied to the wire types, and its result

vars == <<url, user, pass, nonce, mutex, pc, req, own, ret, posts, stream,
          steps, issued, resp, origin, tripped, json, applied>>

libVars == <<resp, origin, tripped, json, applied>>

clientVars == <<url, user, pass>>

sendVars == <<posts, stream, steps>>

NoRet == [op |-> "none"]

NoStream == [status |-> 0, io |-> "none", body |-> Garbage]

NoResponse == Response(None, None, Null)

NoText == [kind |-> "none", result |-> Absent, error |-> Absent, id |-> Absent]

NoApplied == [op |-> "none"]

\* The wire types at rest: no Response at hand, nothing applied
LibIdle ==
    /\ resp = NoResponse
    /\ origin = NoResponse
    /\ tripped = FALSE
    /\ json = NoText
    /\ applied = NoApplied

\* Client::new: what the constructor accepts.  A password without a username
\* trips the debug assertion, so it is not a configuration of the program.
Credentials ==
    { [user |-> None, pass |-> None],
      [user |-> Some("alice"), pass |-> None],
      [user |-> Some("alice"), pass |-> Some("secret")] }

ClientNew(u, cred) ==
    /\ url = u
    /\ user = cred.user
    /\ pass = cred.pass
    /\ nonce = 0
    /\ mutex = NoCaller

Init ==
    /\ \E cred \in Credentials : ClientNew("http://node:8332", cred)
    /\ pc = [c \in Callers |-> "idle"]
    /\ req = [c \in Callers |-> NoRequest]
    /\ own = [c \in Callers |-> FALSE]
    /\ ret = [c \in Callers |-> NoRet]
    /\ posts = [c \in Callers |-> <<>>]
    /\ stream = [c \in Callers |-> NoStream]
    /\ steps = [c \in Callers |-> <<>>]
    /\ issued = <<>>
    /\ LibIdle

\* A caller starting an operation forgets the log of its previous send_request
ResetSend(c) ==
    /\ posts' = [posts EXCEPT ![c] = <<>>]
    /\ stream' = [stream EXCEPT ![c] = NoStream]
    /\ steps' = [steps EXCEPT ![c] = <<>>]

----------------------------------------------------------------------------
(* Client::build_request and Client::last_nonce                            *)

\* A lock that excludes nobody (the counter left unprotected)
CanLockUnprotected(c) == TRUE

\* self.nonce.lock(): blocks until no other caller holds the guard
CanLock(c) == mutex = NoCaller

\* An increment that starts over at the end of a small range
IncrementResetting(n) == (n + 1) % MaxNonce

\* An increment that skips an id
IncrementSkipping(n) == n + 2

\* `*nonce += 1`
Increment(n) == n + 1

\* The id of the Request under construction: From::from(*nonce)
RequestId(n) == ValueFromU64(n)

\* let mut nonce = self.nonce.lock().unwrap();
BuildRequestLock(c) ==
    /\ pc[c] = "idle"
    /\ nonce < MaxNonce
    /\ CanLock(c)
    /\ mutex' = c
    /\ pc' = [pc EXCEPT ![c] = "build_locked"]
    /\ ret' = [ret EXCEPT ![c] = NoRet]
    /\ ResetSend(c)
    /\ UNCHANGED <<libVars, clientVars, nonce, req, own, issued>>

\* *nonce += 1;
BuildRequestIncrement(c) ==
    /\ pc[c] = "build_locked"
    /\ nonce' = Increment(nonce)
    /\ pc' = [pc EXCEPT ![c] = "build_incremented"]
    /\ UNCHANGED <<libVars, clientVars, mutex, req, own, ret, sendVars, issued>>

\* Request { method: name, params: params, id: From::from(*nonce) }, and the
\* guard dropped on return.  name and params are the caller's arguments.
BuildRequestReturn(c) ==
    /\ pc[c] = "build_incremented"
    /\ LET r == Request(CallOf(c).method, CallOf(c).params, RequestId(nonce))
       IN  /\ req' = [req EXCEPT ![c] = r]
           /\ ret' = [ret EXCEPT ![c] = [op |-> "build_request", val |-> r]]
           /\ issued' = Append(issued, r.id)
    /\ own' = [own EXCEPT ![c] = TRUE]
    /\ mutex' = IF mutex = c THEN NoCaller ELSE mutex
    /\ pc' = [pc EXCEPT ![c] = "idle"]
    /\ UNCHANGED <<libVars, clientVars, nonce, sendVars>>

\* The u64 that last_nonce returns
U64(n) == [u64 |-> n]

\* An accessor that consumes an id
LastNonceConsuming(n) == n + 1

\* What last_nonce leaves in the counter
LastNonceEffect(n) == n

\* *self.nonce.lock().unwrap(): lock, read, unlock
LastNonce(c) ==
    /\ pc[c] = "idle"
    /\ CanLock(c)
    /\ ret[c].op # "last_nonce"
    /\ ret' = [ret EXCEPT ![c] = [op |-> "last_nonce", val |-> U64(nonce)]]
    /\ nonce' = LastNonceEffect(nonce)
    /\ ResetSend(c)
    /\ UNCHANGED <<libVars, clientVars, mutex, pc, req, own, issued>>

\* Request derives Clone: a caller takes a copy of a Request another caller
\* holds, to send it itself.
CloneRequest(c) ==
    /\ pc[c] = "idle"
    /\ \E d \in Callers \ {c} :
         /\ req[d] # NoRequest
         /\ req[d] # req[c]
         /\ req' = [req EXCEPT ![c] = req[d]]
    /\ own' = [own EXCEPT ![c] = FALSE]
    /\ ret' = [ret EXCEPT ![c] = NoRet]
    /\ ResetSend(c)
    /\ UNCHANGED <<libVars, clientVars, nonce, mutex, pc, issued>>

----------------------------------------------------------------------------
(* Client::send_request                                                    *)

\* Headers that carry the credentials only when a password is configured too
BuildHeadersNeedingPassword(u, p) ==
    IF is_some(u) /\ is_some(p)
    THEN {[name |-> "Authorization", scheme |-> "Basic",
           username |-> unwrap(u), password |-> p]}
    ELSE {}

\* Headers::new(), plus Authorization(Basic {..}) when self.user is Some
BuildHeaders(u, p) ==
    IF is_some(u)
    THEN {[name |-> "Authorization", scheme |-> "Basic",
           username |-> unwrap(u), password |-> p]}
    ELSE {}

\* self.client.post(&self.url).headers(h).body(&request_json[..]).send()
Post(u, h, body, outcome) ==
    [url |-> u, headers |-> h, body |-> body, outcome |-> outcome]

\* A retry on any I/O failure of the transport, whatever its kind
ShouldRetryAnyIo(e) == e.variant = "Io"

\* Err(hyper::error::Error::Io(e)) with e.kind() == ConnectionAborted
ShouldRetry(e) == e.variant = "Io" /\ e.kind = "ConnectionAborted"

\* A read that gives up on a status other than 200
ReadToStringOnSuccessOnly(status, io) == io = "ok" /\ status = 200

\* stream.read_to_string(&mut response_str)?: the status is not looked at
ReadToString(status, io) == io = "ok"

\* A comparison of the digits alone, blind to the JSON type of the id
IdMismatchByDigits(response, request) == response.id.v # request.id.v

\* A comparison that accepts every numeric id
IdMismatchByType(response, request) == response.id.t # request.id.t

\* response.id != request.id, by the equality of Value
IdMismatch(response, request) == response.id # request.id

\* A send_request that POSTs again when the received body was of no use
AfterReceiveRetrying(result) == IF result.ok THEN "idle" ELSE "retry"

\* Where send_request goes once a stream was read and checked: every path of
\* lines 103-112 returns
AfterReceive(result) == "idle"

\* A send_request that keeps retrying while the connection is aborted
AfterRetryFailureLooping(e) == IF ShouldRetry(e) THEN "retry" ELSE "idle"

\* Where send_request goes when the retry failed: `?` returns the error
AfterRetryFailure(e) == "idle"

\* A retry arm that reports the first failure whatever the retry did
RetryAttemptSurfacingFirst(first, second) == Err(ErrorHyper(first.val))

\* What the retry arm of the match evaluates to: the second attempt's own
\* outcome, its error wrapped by map_err(Error::Hyper)
RetryAttempt(first, second) ==
    IF second.ok THEN second ELSE Err(ErrorHyper(second.val))

\* One executed step of send_request and whether it succeeded
Step(name, ok) == [s |-> name, ok |-> ok]

Returned(result) == [op |-> "send_request", val |-> result]

\* A send_request that uses up an id on each of its steps
SendEffectConsuming(n) == IF n < MaxNonce THEN n + 1 ELSE n

\* What send_request leaves in the counter: it takes &self and never locks
\* self.nonce
SendEffect(n) == n

\* The first attempt: serialize, build the headers, POST.
SendRequestBegin(c) ==
    /\ pc[c] = "idle"
    /\ req[c] # NoRequest
    /\ \E serOk \in BOOLEAN, out \in SendOutcomes :
         IF ~serOk
         THEN \* serde_json::to_string(request)? fails
              /\ out = Err(ConnectionAborted)
              /\ steps' = [steps EXCEPT ![c] = <<Step("serialize", FALSE)>>]
              /\ posts' = [posts EXCEPT ![c] = <<>>]
              /\ stream' = [stream EXCEPT ![c] = NoStream]
              /\ ret' = [ret EXCEPT ![c] = Returned(Err(FromJsonError(SerializeError)))]
              /\ pc' = pc
         ELSE LET headers == BuildHeaders(user, pass)
                  request_json == RequestToString(req[c])
              IN  /\ steps' = [steps EXCEPT ![c] =
                                 <<Step("serialize", TRUE), Step("headers", TRUE),
                                   Step("post", out.ok)>>]
                  /\ posts' = [posts EXCEPT ![c] =
                                 <<Post(url, headers, request_json, out)>>]
                  /\ IF out.ok
                     THEN /\ stream' = [stream EXCEPT ![c] =
                                          [NoStream EXCEPT !.status = out.val]]
                          /\ ret' = [ret EXCEPT ![c] = NoRet]
                          /\ pc' = [pc EXCEPT ![c] = "read"]
                     ELSE /\ stream' = [stream EXCEPT ![c] = NoStream]
                          /\ IF ShouldRetry(out.val)
                             THEN /\ ret' = [ret EXCEPT ![c] = NoRet]
                                  /\ pc' = [pc EXCEPT ![c] = "retry"]
                             ELSE /\ ret' = [ret EXCEPT ![c] =
                                               Returned(Err(ErrorHyper(out.val)))]
                                  /\ pc' = pc
    /\ nonce' = SendEffect(nonce)
    /\ UNCHANGED <<libVars, clientVars, mutex, req, own, issued>>

\* The retry: a fresh POST with retry_headers and the same body;
\* .map_err(Error::Hyper)? on its failure.
SendRequestRetry(c) ==
    /\ pc[c] = "retry"
    /\ \E out \in SendOutcomes :
         LET retry_headers == posts[c][1].headers
             request_json == posts[c][1].body
             r == RetryAttempt(posts[c][1].outcome, out)
         IN  /\ steps' = [steps EXCEPT ![c] = Append(@, Step("post", out.ok))]
             /\ posts' = [posts EXCEPT ![c] =
                            Append(@, Post(url, retry_headers, request_json, out))]
             /\ IF r.ok
                THEN /\ stream' = [stream EXCEPT ![c] =
                                     [NoStream EXCEPT !.status = r.val]]
                     /\ pc' = [pc EXCEPT ![c] = "read"]
                     /\ ret' = ret
                ELSE /\ stream' = stream
                     /\ pc' = [pc EXCEPT ![c] = AfterRetryFailure(out.val)]
                     /\ ret' = [ret EXCEPT ![c] =
                                  IF AfterRetryFailure(out.val) = "idle"
                                  THEN Returned(r)
                                  ELSE NoRet]
    /\ nonce' = SendEffect(nonce)
    /\ UNCHANGED <<libVars, clientVars, mutex, req, own, issued>>

\* What lines 103-112 return for a stream that reads as io and holds body,
\* with the steps executed on the way
Receive(request, status, io, body) ==
    IF ~ReadToString(status, io)
    THEN [result |-> Err(FromIoError(ReadError)),
          steps |-> <<Step("read", FALSE)>>]
    ELSE LET decoded == ResponseFromStr(body)
             read == <<Step("read", TRUE), Step("drain", TRUE)>>
         IN  IF ~decoded.ok
             THEN [result |-> Err(FromJsonError(decoded.val)),
                   steps |-> Append(read, Step("decode", FALSE))]
             ELSE IF IdMismatch(decoded.val, request)
                  THEN [result |-> Err(ErrorNonceMismatch),
                        steps |-> read \o <<Step("decode", TRUE),
                                            Step("compare", FALSE)>>]
                  ELSE [result |-> Ok(decoded.val),
                        steps |-> read \o <<Step("decode", TRUE),
                                            Step("compare", TRUE)>>]

\* Read the body, drain the stream, decode, compare the ids, return.
SendRequestReceive(c) ==
    /\ pc[c] = "read"
    /\ \E io \in {"ok", "err"}, body \in Bodies(req[c].id) :
         /\ io = "err" => body = Garbage
         /\ LET r == Receive(req[c], stream[c].status, io, body)
            IN  /\ stream' = [stream EXCEPT ![c] =
                                [status |-> @.status, io |-> io, body |-> body]]
                /\ steps' = [steps EXCEPT ![c] = @ \o r.steps]
                /\ pc' = [pc EXCEPT ![c] = AfterReceive(r.result)]
                /\ ret' = [ret EXCEPT ![c] =
                             IF AfterReceive(r.result) = "idle"
                             THEN Returned(r.result)
                             ELSE NoRet]
    /\ nonce' = SendEffect(nonce)
    /\ UNCHANGED <<libVars, clientVars, mutex, req, own, posts, issued>>

----------------------------------------------------------------------------

Next ==
    \/ \E c \in Callers : BuildRequestLock(c)
    \/ \E c \in Callers : BuildRequestIncrement(c)
    \/ \E c \in Callers : BuildRequestReturn(c)
    \/ \E c \in Callers : LastNonce(c)
    \/ \E c \in Callers : CloneRequest(c)
    \/ \E c \in Callers : SendRequestBegin(c)
    \/ \E c \in Callers : SendRequestRetry(c)
    \/ \E c \in Callers : SendRequestReceive(c)

Spec == Init /\ [][Next]_vars

----------------------------------------------------------------------------
(* lib.rs and error.rs: Response, the standard errors, result_to_response  *)

ErrorRpc(e) == [variant |-> "Rpc", cause |-> e]

ErrorNoErrorOrResult ==
    [variant |-> "NoErrorOrResult", cause |-> [variant |-> "none", kind |-> ""]]

\* The types T a caller asks into_result for
Types == {"bool", "u64", "String", "Value"}

InvalidType == [variant |-> "serde_json", kind |-> "invalid type"]

\* serde_json::value::from_value::<T>: the value as a T, or an error when the
\* value is of another JSON type
from_value(v, T) ==
    IF \/ T = "Value"
       \/ T = "bool" /\ v.t = "bool"
       \/ T = "u64" /\ v.t = "num" /\ v.v >= 0
       \/ T = "String" /\ v.t = "str"
    THEN Ok([type |-> T, of |-> v])
    ELSE Err(InvalidType)

\* .map_err(Error::Json)
MapErrJson(r) == IF r.ok THEN r ELSE Err(ErrorJson(r.val))

\* An into_result that looks at the result before the error
into_result_result_first(self, T) ==
    IF is_some(self.result)
    THEN MapErrJson(from_value(unwrap(self.result), T))
    ELSE IF is_some(self.error)
         THEN Err(ErrorRpc(unwrap(self.error)))
         ELSE Err(ErrorNoErrorOrResult)

\* Response::into_result::<T>
into_result(self, T) ==
    IF is_some(self.error)
    THEN Err(ErrorRpc(unwrap(self.error)))
    ELSE IF is_some(self.result)
         THEN MapErrJson(from_value(unwrap(self.result), T))
         ELSE Err(ErrorNoErrorOrResult)

\* Response::check_error
check_error(self) ==
    IF is_some(self.error)
    THEN Err(ErrorRpc(unwrap(self.error)))
    ELSE Ok([type |-> "()", of |-> Null])

\* An is_none that also requires the error to be absent
is_none_of_both(self) == self.result = None /\ self.error = None

\* Response::is_none
is_none(self) == self.result = None

\* enum StandardError
StandardErrors ==
    {"ParseError", "InvalidRequest", "MethodNotFound", "InvalidParams",
     "InternalError"}

\* A table with the codes of InvalidRequest and MethodNotFound exchanged
standard_error_swapped(code, data) ==
    CASE code = "ParseError"     -> RpcError(-32700, "Parse error", data)
      [] code = "InvalidRequest" -> RpcError(-32601, "Invalid Request", data)
      [] code = "MethodNotFound" -> RpcError(-32600, "Method not found", data)
      [] code = "InvalidParams"  -> RpcError(-32602, "Invalid params", data)
      [] code = "InternalError"  -> RpcError(-32603, "Internal error", data)

\* standard_error
standard_error(code, data) ==
    CASE code = "ParseError"     -> RpcError(-32700, "Parse error", data)
      [] code = "InvalidRequest" -> RpcError(-32600, "Invalid Request", data)
      [] code = "MethodNotFound" -> RpcError(-32601, "Method not found", data)
      [] code = "InvalidParams"  -> RpcError(-32602, "Invalid params", data)
      [] code = "InternalError"  -> RpcError(-32603, "Internal error", data)

\* A conversion that writes every id as a number
result_to_response_numeric_id(result, id) ==
    IF result.ok
    THEN Response(Some(result.val), None, Num(id.v))
    ELSE Response(None, Some(result.val), Num(id.v))

\* result_to_response
result_to_response(result, id) ==
    IF result.ok
    THEN Response(Some(result.val), None, id)
    ELSE Response(None, Some(result.val), id)

\* Serialize for Option<Value>: None is written as null, Some(v) as v
OptionToJson(o) == IF o = None THEN Null ELSE unwrap(o)

\* A serializer of RpcError that leaves the data member out of the object
OptionErrorToJsonDroppingData(o) ==
    IF o = None
    THEN Null
    ELSE ErrorObject(unwrap(o).code, unwrap(o).message, Absent)

\* Serialize for Option<RpcError>: code, message and data are all written
OptionErrorToJson(o) ==
    IF o = None
    THEN Null
    ELSE ErrorObject(unwrap(o).code, unwrap(o).message,
                     OptionToJson(unwrap(o).data))

\* serde_json::to_string(&response): the JSON text of a Response
ResponseToString(r) ==
    ResponseText(OptionToJson(r.result), OptionErrorToJson(r.error), r.id)

\* The JSON values, ids, data and outcomes the wire types are exercised with
Values == {Null, Bool(TRUE), Str(7)}

Ids == {Num(81), Num(66), Num(1), Str(123), Num(-11)}

DataOptions == {None, Some(Null), Some(Str(5))}


\* The Responses a user can write down as a struct literal
Responses ==
    { Response(r, e, i) :
        r \in {None} \cup {Some(v) : v \in Values},
        e \in {None} \cup {Some(standard_error(k, d)) :
                             k \in {"ParseError", "InvalidParams"},
                             d \in DataOptions},
        i \in Ids }

clientSide == <<url, user, pass, nonce, mutex, pc, req, own, ret, posts,
                stream, steps, issued>>

Applied(op, arg, val) == [op |-> op, arg |-> arg, val |-> val]

\* A freshly made Client that nobody calls, and a Response at hand
LibInit ==
    /\ ClientNew("http://node:8332", [user |-> None, pass |-> None])
    /\ pc = [c \in Callers |-> "idle"]
    /\ req = [c \in Callers |-> NoRequest]
    /\ own = [c \in Callers |-> FALSE]
    /\ ret = [c \in Callers |-> NoRet]
    /\ posts = [c \in Callers |-> <<>>]
    /\ stream = [c \in Callers |-> NoStream]
    /\ steps = [c \in Callers |-> <<>>]
    /\ issued = <<>>
    /\ resp \in Responses
    /\ origin = resp
    /\ tripped = FALSE
    /\ json = NoText
    /\ applied = NoApplied

LibStandardError ==
    /\ \E k \in StandardErrors, d \in DataOptions :
         applied' = Applied("standard_error", [code |-> k, data |-> d],
                            standard_error(k, d))
    /\ UNCHANGED <<clientSide, resp, origin, tripped, json>>

\* The outcomes a user passes to result_to_response: a value, or the RpcError
\* that standard_error just returned
Outcomes ==
    {Ok(v) : v \in Values}
    \cup (IF applied.op = "standard_error" THEN {Err(applied.val)} ELSE {})

LibResultToResponse ==
    /\ \E o \in Outcomes, i \in Ids :
         /\ resp' = result_to_response(o, i)
         /\ applied' = Applied("result_to_response", [result |-> o, id |-> i],
                               result_to_response(o, i))
    /\ origin' = resp'
    /\ tripped' = FALSE
    /\ json' = NoText
    /\ UNCHANGED clientSide

LibIntoResult ==
    /\ \E T \in Types :
         applied' = Applied("into_result", [self |-> resp, type |-> T],
                            into_result(resp, T))
    /\ UNCHANGED <<clientSide, resp, origin, tripped, json>>

LibCheckError ==
    /\ applied' = Applied("check_error", [self |-> resp], check_error(resp))
    /\ UNCHANGED <<clientSide, resp, origin, tripped, json>>

LibIsNone ==
    /\ applied' = Applied("is_none", [self |-> resp], [bool |-> is_none(resp)])
    /\ UNCHANGED <<clientSide, resp, origin, tripped, json>>

\* serde_json::to_string(&resp)
LibToString ==
    /\ json' = ResponseToString(resp)
    /\ origin' = resp
    /\ applied' = Applied("to_string", [self |-> resp], ResponseToString(resp))
    /\ UNCHANGED <<clientSide, resp, tripped>>

\* serde_json::from_str of the text last written
LibFromStr ==
    /\ json # NoText
    /\ LET d == ResponseFromStr(json)
       IN  /\ applied' = Applied("from_str", [text |-> json], d)
           /\ resp' = IF d.ok THEN d.val ELSE resp
    /\ tripped' = TRUE
    /\ json' = NoText
    /\ UNCHANGED <<clientSide, origin>>

LibNext ==
    \/ LibStandardError
    \/ LibResultToResponse
    \/ LibIntoResult
    \/ LibCheckError
    \/ LibIsNone
    \/ LibToString
    \/ LibFromStr

LibSpec == LibInit /\ [][LibNext]_vars

----------------------------------------------------------------------------
(* Properties                                                              *)

\* The caller's send_request has returned and is its last completed operation
Done(c) == pc[c] = "idle" /\ ret[c].op = "send_request"

\* The transport handed the caller's send_request a response stream
Delivered(c) == stream[c].status # 0

\* The body of the caller's stream was read to its end
BodyRead(c) == stream[c].io = "ok"

LastIssued == IF issued = <<>> THEN 0 ELSE issued[Len(issued)].v

ErrorOf(c) == ret[c].val.val

Failed(c, variant) == Done(c) /\ ~ret[c].val.ok /\ ErrorOf(c).variant = variant

\* C1: whatever the interleaving of the callers' build_request calls, no two
\* of them return Requests with the same id.
C1_UniqueIds ==
    /\ \A i, j \in DOMAIN issued : i # j => issued[i] # issued[j]
    /\ \A c, d \in Callers :
         (c # d /\ own[c] /\ own[d]) => req[c].id # req[d].id

\* Both callers hold a Request of their own making.
C1_Witness == \A c \in Callers : own[c] /\ req[c] # NoRequest

\* C2: in the order the nonce lock was held, every id issued is a number
\* strictly greater than all ids issued before it, and the counter never
\* decreases.
C2_StrictlyIncreasing ==
    [][ /\ nonce' >= nonce
        /\ issued' # issued =>
             /\ Len(issued') = Len(issued) + 1
             /\ SubSeq(issued', 1, Len(issued)) = issued
             /\ issued'[Len(issued')].t = "num"
             /\ \A i \in DOMAIN issued : issued[i].v < issued'[Len(issued')].v
      ]_vars

\* Two Requests were built, the second by the other caller.
C2_Witness ==
    /\ Len(issued) = 2
    /\ \E c, d \in Callers :
         c # d /\ own[c] /\ own[d] /\ req[c].id = issued[1] /\ req[d].id = issued[2]

\* C3: last_nonce returns the id most recently issued (0 before the first
\* build_request) and leaves the counter, hence the next id, as it was.
C3_LastNonceReads ==
    [][ \A c \in Callers :
          (ret'[c].op = "last_nonce" /\ ret[c].op # "last_nonce") =>
              /\ ret'[c].val = U64(LastIssued)
              /\ nonce' = nonce
              /\ issued' = issued
      ]_vars

\* A caller read the counter after a Request was built, and another one was
\* built after that.
C3_Witness ==
    \E c \in Callers :
        ret[c].op = "last_nonce" /\ ret[c].val = U64(1) /\ issued = <<Num(1), Num(2)>>

\* C4: a decoded response whose id differs from the request's makes
\* send_request return NonceMismatch, and every Response it returns as Ok
\* carries the id of the Request passed in.
C4_NonceChecked ==
    \A c \in Callers :
        Done(c) =>
            /\ (BodyRead(c) /\ ResponseFromStr(stream[c].body).ok
                  /\ ResponseFromStr(stream[c].body).val.id # req[c].id)
                 => ret[c].val = Err(ErrorNonceMismatch)
            /\ ret[c].val.ok => ret[c].val.val.id = req[c].id

\* A response that repeats the request's digits as a string was refused.
C4_Witness ==
    \E c \in Callers :
        /\ Failed(c, "NonceMismatch")
        /\ stream[c].body.id = Str(req[c].id.v)

\* The first POST failed with "connection aborted" and the retry delivered a
\* stream.
Recovered(c) ==
    /\ Done(c)
    /\ Len(posts[c]) = 2
    /\ posts[c][1].outcome = Err(ConnectionAborted)
    /\ posts[c][2].outcome.ok

\* The only POST delivered a stream.
FirstTry(c) == Done(c) /\ Len(posts[c]) = 1 /\ posts[c][1].outcome.ok

\* C5: when the first attempt is aborted and the second succeeds, the first
\* failure is not surfaced, a well-formed matching body is returned as the
\* Response, and the call ends as a call whose only attempt was the second.
C5_RetryRecovers ==
    \A c \in Callers :
        Recovered(c) =>
            /\ ~Failed(c, "Hyper")
            /\ (BodyRead(c) /\ ResponseFromStr(stream[c].body).ok
                  /\ ResponseFromStr(stream[c].body).val.id = req[c].id)
                 => ret[c].val = ResponseFromStr(stream[c].body)
            /\ \A d \in Callers :
                 (FirstTry(d) /\ req[d] = req[c] /\ stream[d] = stream[c])
                     => ret[d] = ret[c]

\* One caller got its Response on the retry, the other sent the same Request
\* and got the same stream at once.
C5_Witness ==
    \E c, d \in Callers :
        /\ Recovered(c) /\ FirstTry(d)
        /\ req[d] = req[c] /\ stream[d] = stream[c]
        /\ ret[c].val.ok

\* C6: no send_request issues more than two POSTs, and one whose two attempts
\* were both aborted has returned the transport error.
C6_AtMostOneRetry ==
    \A c \in Callers :
        /\ Len(posts[c]) <= 2
        /\ (/\ Len(posts[c]) = 2
            /\ posts[c][1].outcome = Err(ConnectionAborted)
            /\ posts[c][2].outcome = Err(ConnectionAborted))
             => /\ Done(c)
                /\ ret[c].val = Err(ErrorHyper(ConnectionAborted))

\* Both attempts of a send_request were aborted.
C6_Witness ==
    \E c \in Callers :
        /\ Len(posts[c]) = 2
        /\ posts[c][1].outcome = Err(ConnectionAborted)
        /\ posts[c][2].outcome = Err(ConnectionAborted)

\* C7: a first attempt that fails otherwise than by "connection aborted" ends
\* the call after that one POST with its error as Hyper; a failed retry ends
\* it with the retry's error as Hyper.
C7_TransportErrors ==
    \A c \in Callers :
        /\ (/\ Len(posts[c]) >= 1
            /\ ~posts[c][1].outcome.ok
            /\ posts[c][1].outcome.val # ConnectionAborted)
             => /\ Len(posts[c]) = 1
                /\ Done(c)
                /\ ret[c].val = Err(ErrorHyper(posts[c][1].outcome.val))
        /\ (Len(posts[c]) = 2 /\ ~posts[c][2].outcome.ok)
             => /\ Done(c)
                /\ ret[c].val = Err(ErrorHyper(posts[c][2].outcome.val))

\* One caller's only attempt was refused; the other's retry failed by
\* something else than the abort of its first attempt.
C7_Witness ==
    \E c, d \in Callers :
        /\ Len(posts[c]) = 1
        /\ posts[c][1].outcome = Err(HyperIo("ConnectionRefused"))
        /\ Len(posts[d]) = 2
        /\ ~posts[d][2].outcome.ok
        /\ posts[d][2].outcome # posts[d][1].outcome

\* The steps of send_request in their order, with one POST and with two
StepOrder(n) ==
    <<"serialize", "headers">> \o [i \in 1..n |-> "post"]
        \o <<"read", "drain", "decode", "compare">>

StepNames(c) == [i \in DOMAIN steps[c] |-> steps[c][i].s]

IsPrefix(p, q) == Len(p) <= Len(q) /\ SubSeq(q, 1, Len(p)) = p

\* The error variant a failure of the named step is reported as
VariantOfStep(name) ==
    CASE name = "serialize" -> "Json"
      [] name = "post"      -> "Hyper"
      [] name = "read"      -> "Io"
      [] name = "decode"    -> "Json"
      [] name = "compare"   -> "NonceMismatch"
      [] OTHER              -> "none"

\* C8: the steps run in the order serialize, transport (with at most one
\* retry), read, decode, compare; the call ends at the first step that fails
\* (a first POST that was aborted aside) with the error of that step, and
\* returns Ok only after all of them succeeded.
C8_FirstFailureDecides ==
    \A c \in Callers :
        LET n == Len(steps[c])
        IN  /\ \E k \in 1..2 : IsPrefix(StepNames(c), StepOrder(k))
            /\ \A i \in 1..n :
                 (~steps[c][i].ok /\ i < n) =>
                     /\ steps[c][i].s = "post"
                     /\ steps[c][i + 1].s = "post"
                     /\ posts[c][1].outcome = Err(ConnectionAborted)
                     /\ \A j \in 1..n : (steps[c][j].s = "post" /\ j # i) => j = i + 1
            /\ Done(c) =>
                 IF steps[c][n].ok
                 THEN /\ ret[c].val.ok
                      /\ \E k \in 1..2 : StepNames(c) = StepOrder(k)
                 ELSE /\ ~ret[c].val.ok
                      /\ ErrorOf(c).variant = VariantOfStep(steps[c][n].s)

\* The two callers' calls ended at different steps: one at the read of the
\* body, the other at the decoding.
C8_Witness ==
    \E c, d \in Callers :
        /\ Failed(c, "Io") /\ steps[c][Len(steps[c])].s = "read"
        /\ Failed(d, "Json") /\ steps[d][Len(steps[d])].s = "decode"

\* C9: once a stream was delivered the call issues no further POST, whatever
\* becomes of the body: a failed read, decoding or id comparison ends it; and
\* a second POST is only ever issued after an aborted first one.
C9_NoRetryAfterDelivery ==
    \A c \in Callers :
        /\ \A i, j \in DOMAIN steps[c] :
             (steps[c][i].s = "read" /\ steps[c][j].s = "post") => j < i
        /\ Delivered(c) =>
             /\ posts[c][Len(posts[c])].outcome.ok
             /\ pc[c] \in {"read", "idle"}
             /\ (stream[c].io # "none") => Done(c)
        /\ Len(posts[c]) >= 2 => posts[c][1].outcome = Err(ConnectionAborted)

\* A call ended on an id mismatch after its single POST.
C9_Witness ==
    \E c \in Callers : Failed(c, "NonceMismatch") /\ Len(posts[c]) = 1

\* The transport behaved alike for both callers, the status code aside
SameTransport(c, d) ==
    /\ Len(posts[c]) = Len(posts[d])
    /\ \A i \in DOMAIN posts[c] :
         \/ posts[c][i].outcome.ok /\ posts[d][i].outcome.ok
         \/ posts[c][i].outcome = posts[d][i].outcome

\* C10: two calls for the same Request whose exchanges differ in nothing but
\* the status code both read the body and return the same thing.
C10_StatusIgnored ==
    \A c, d \in Callers :
        (/\ Done(c) /\ Done(d)
         /\ Delivered(c) /\ Delivered(d)
         /\ req[c] = req[d]
         /\ SameTransport(c, d)
         /\ stream[c].io = stream[d].io
         /\ stream[c].body = stream[d].body)
            => /\ ret[c] = ret[d]
               /\ steps[c] = steps[d]
               /\ \E i \in DOMAIN steps[c] : steps[c][i].s = "read"

\* The same Request was answered 200 to one caller and 500 to the other, with
\* the same body, and both got the Response.
C10_Witness ==
    \E c, d \in Callers :
        /\ Done(c) /\ Done(d)
        /\ req[c] = req[d]
        /\ stream[c].status = 200 /\ stream[d].status = 500
        /\ stream[c].body = stream[d].body
        /\ ret[c].val.ok /\ ret[d].val.ok

\* C11: into_result returns Rpc(e) whenever the error is present, with or
\* without a result; NoErrorOrResult exactly when result and error are both
\* absent; and otherwise the result converted to T, or a Json error when it
\* does not convert.
C11_IntoResult ==
    applied.op = "into_result" =>
        LET self == applied.arg.self
            v == applied.val
        IN  /\ is_some(self.error) => v = Err(ErrorRpc(unwrap(self.error)))
            /\ (v = Err(ErrorNoErrorOrResult))
                 <=> (self.result = None /\ self.error = None)
            /\ (self.error = None /\ is_some(self.result)) =>
                 IF from_value(unwrap(self.result), applied.arg.type).ok
                 THEN v = Ok([type |-> applied.arg.type, of |-> unwrap(self.result)])
                 ELSE ~v.ok /\ v.val.variant = "Json"

\* into_result was applied to a Response that carries a result and an error.
C11_Witness ==
    /\ applied.op = "into_result"
    /\ is_some(applied.arg.self.result)
    /\ is_some(applied.arg.self.error)
    /\ applied.val.val.variant = "Rpc"

\* The response that was serialized holds no present-but-null result or data
NoPresentNull(r) ==
    /\ r.result # Some(Null)
    /\ is_some(r.error) => unwrap(r.error).data # Some(Null)

\* C12 as stated: serializing any Response and deserializing the text gives
\* back an equal Response, whatever JSON values result, data and id hold.
C12_RoundTripAnyValue ==
    applied.op = "from_str" => applied.val = Ok(origin)

\* C12: serializing a Response and deserializing the text gives back an equal
\* Response for all four permutations of result and error present or absent,
\* data present or absent and any id, provided a present result or data is
\* not null; a present null is written as null and decodes as absent, the
\* other members being unchanged.
C12_RoundTrip ==
    applied.op = "from_str" =>
        /\ applied.val.ok
        /\ applied.val.val.id = origin.id
        /\ NoPresentNull(origin) => applied.val = Ok(origin)
        /\ origin.result = Some(Null) => applied.val.val.result = None
        /\ origin.result # Some(Null) => applied.val.val.result = origin.result
        /\ is_some(origin.error) <=> is_some(applied.val.val.error)

C12_Witness ==
    /\ applied.op = "from_str"
    /\ is_some(origin.result)
    /\ is_some(origin.error)
    /\ unwrap(origin.error).data = Some(Str(5))
    /\ applied.val = Ok(origin)

\* C13: result_to_response(outcome, id) sets exactly one of result and error:
\* Ok(v) gives result = v and no error, Err(e) gives no result and error = e;
\* the id of the Response is the given id with its JSON type.
C13_ResultToResponse ==
    applied.op = "result_to_response" =>
        LET outcome == applied.arg.result
            r == applied.val
        IN  /\ r.id = applied.arg.id
            /\ is_some(r.result) # is_some(r.error)
            /\ outcome.ok => (r.result = Some(outcome.val) /\ r.error = None)
            /\ ~outcome.ok => (r.result = None /\ r.error = Some(outcome.val))

C13_Witness ==
    /\ applied.op = "result_to_response"
    /\ ~applied.arg.result.ok
    /\ applied.arg.id = Str(123)
    /\ applied.val.id = Str(123)
    /\ unwrap(applied.val.error).code = -32602

\* C14: standard_error gives each of the five standard conditions its
\* canonical code and message, the five codes are pairwise distinct, and the
\* data argument is copied into the RpcError without affecting code or message.
C14_StandardErrorTable ==
    applied.op = "standard_error" =>
        LET canonical == [ParseError |-> <<-32700, "Parse error">>,
                          InvalidRequest |-> <<-32600, "Invalid Request">>,
                          MethodNotFound |-> <<-32601, "Method not found">>,
                          InvalidParams |-> <<-32602, "Invalid params">>,
                          InternalError |-> <<-32603, "Internal error">>]
            e == applied.val
        IN  /\ e.code = canonical[applied.arg.code][1]
            /\ e.message = canonical[applied.arg.code][2]
            /\ e.data = applied.arg.data
            /\ \A k \in StandardErrors \ {applied.arg.code}, d \in DataOptions :
                   /\ standard_error(k, d).code # e.code
                   /\ standard_error(k, d).message # e.message

C14_Witness ==
    /\ applied.op = "standard_error"
    /\ applied.arg.code = "MethodNotFound"
    /\ applied.arg.data = Some(Str(5))
    /\ applied.val = RpcError(-32601, "Method not found", Some(Str(5)))

\* C16: is_none is true exactly when result is absent, whatever error and id
\* are: false for (result true, no error, id 81), true for (no result, no
\* error, id 66), and the same after serializing and deserializing them.
C16_IsNone ==
    applied.op = "is_none" =>
        LET self == applied.arg.self
            joanna == Response(Some(Bool(TRUE)), None, Num(81))
            bill == Response(None, None, Num(66))
        IN  /\ applied.val.bool <=> ~is_some(self.result)
            /\ self = joanna => ~applied.val.bool
            /\ self = bill => applied.val.bool
            /\ (tripped /\ origin = joanna) => ~applied.val.bool
            /\ (tripped /\ origin = bill) => applied.val.bool

C16_Witness ==
    /\ applied.op = "is_none"
    /\ tripped
    /\ origin = Response(None, None, Num(66))
    /\ applied.val.bool

\* C15: every POST of send_request carries a Basic Authorization header, with
\* the configured username and optional password, if and only if the Client
\* has a username; the retry POST has the body and headers of the first.
C15_BasicAuth ==
    \A c \in Callers :
        /\ \A i \in 1..Len(posts[c]) :
              /\ posts[c][i].headers # {} <=> is_some(user)
              /\ is_some(user) =>
                    posts[c][i].headers =
                        {[name |-> "Authorization", scheme |-> "Basic",
                          username |-> unwrap(user), password |-> pass]}
        /\ Len(posts[c]) = 2 =>
              /\ posts[c][2].body = posts[c][1].body
              /\ posts[c][2].headers = posts[c][1].headers
              /\ posts[c][2].url = posts[c][1].url

C15_Witness ==
    \E c \in Callers :
        /\ Len(posts[c]) = 2
        /\ user = Some("alice")
        /\ pass = None
        /\ \E h \in posts[c][2].headers : h.username = "alice" /\ h.password = None

\* C17: for any interleaving of callers sharing the Client, each sending the
\* Request it built, a Response returned as Ok to a caller carries the id
\* minted for that caller's Request and never the id of another caller's
\* Request, in whatever order the responses are read.
C17_OwnResponseOnly ==
    \A c \in Callers :
        (Done(c) /\ own[c] /\ ret[c].val.ok) =>
            /\ ret[c].val.val.id = req[c].id
            /\ \E i \in 1..Len(issued) : issued[i] = ret[c].val.val.id
            /\ \A d \in Callers \ {c} :
                  (own[d] /\ req[d] # NoRequest) => ret[c].val.val.id # req[d].id

\* The caller of the later Request has its Response while the caller of the
\* earlier one is still reading.
C17_Witness ==
    \E c \in Callers, d \in Callers :
        /\ Done(c) /\ own[c] /\ ret[c].val.ok
        /\ own[d] /\ req[d] # NoRequest
        /\ req[d].id.v < req[c].id.v
        /\ pc[d] = "read"

\* The callers that have incremented the counter and not yet returned
InFlight == {c \in Callers : pc[c] = "build_incremented"}

\* C18 as stated: in every reachable state the counter equals the number of
\* build_request calls completed, and the ids issued so far are 1..n.
C18_CounterEqualsCompleted ==
    /\ nonce = Len(issued)
    /\ \A i \in 1..Len(issued) : issued[i] = Num(i)

\* C18: the counter starts at 0 and each completed build_request adds exactly
\* one to it: whenever no build_request holds the lock the counter equals the
\* number of build_request calls completed; while a call is between its
\* increment and its return (at most one is) the counter is one ahead; the ids
\* issued so far are 1..n in order, without gap or repeat.
C18_CounterCountsBuilds ==
    /\ \A i \in 1..Len(issued) : issued[i] = Num(i)
    /\ Cardinality(InFlight) <= 1
    /\ nonce = Len(issued) + Cardinality(InFlight)
    /\ mutex = NoCaller => nonce = Len(issued)
    /\ \A c \in Callers :
          ret[c].op = "build_request" =>
              \E i \in 1..Len(issued) : ret[c].val.id = Num(i)

C18_Witness ==
    /\ mutex = NoCaller
    /\ nonce = MaxNonce
    /\ Len(issued) = MaxNonce
    /\ issued[1] = Num(1)
    /\ \E c \in Callers : ret[c].op = "last_nonce" /\ ret[c].val = U64(MaxNonce)

\* A step of the caller's send_request: it extends the log of executed steps
SendStep(c) == steps'[c] # steps[c] /\ steps'[c] # <<>>

\* C19: no step of send_request, whatever it returns and with or without a
\* retry, changes the counter, the url or the credentials, nor the ids issued:
\* last_nonce reads the same value after it as before it.
C19_SendKeepsClient ==
    [][ \A c \in Callers :
          SendStep(c) =>
              /\ nonce' = nonce
              /\ issued' = issued
              /\ url' = url
              /\ user' = user
              /\ pass' = pass
              /\ mutex' = mutex
      ]_vars

\* A send_request failed after a retry and the counter still reads the last
\* id issued, which the next build_request followed.
C19_Witness ==
    \E c \in Callers :
        /\ Failed(c, "Hyper")
        /\ Len(posts[c]) = 2
        /\ req[c].id = Num(1)
        /\ nonce = 2
        /\ issued = <<Num(1), Num(2)>>

\* The caller's send_request read a JSON response object with the request's id
Matching(c) ==
    /\ Done(c)
    /\ BodyRead(c)
    /\ stream[c].body.kind = "object"
    /\ stream[c].body.id = req[c].id

\* C20: send_request never returns the Rpc or NoErrorOrResult error; a read
\* response object whose id matches the request is returned as Ok with its
\* result and error as received, also when it carries an error object, both
\* result and error, or neither; only into_result and check_error classify
\* those cases afterwards.
C20_NoProtocolErrors ==
    \A c \in Callers :
        /\ (Done(c) /\ ~ret[c].val.ok) =>
              ErrorOf(c).variant \in {"Json", "Hyper", "Io", "NonceMismatch"}
        /\ Matching(c) =>
              LET body == stream[c].body
                  r == ret[c].val.val
              IN  /\ ret[c].val.ok
                  /\ r.id = body.id
                  /\ is_some(r.result) <=> body.result # Null
                  /\ is_some(r.error) <=> body.error # Null
                  /\ is_some(r.error) => ~check_error(r).ok
                                         /\ into_result(r, "Value").val.variant = "Rpc"
                  /\ (r.result = None /\ r.error = None) =>
                        into_result(r, "Value") = Err(ErrorNoErrorOrResult)

\* A response with both a result and an error object was returned as Ok.
C20_Witness ==
    \E c \in Callers :
        /\ Matching(c)
        /\ ret[c].val.ok
        /\ is_some(ret[c].val.val.result)
        /\ is_some(ret[c].val.val.error)
        /\ unwrap(ret[c].val.val.error).code = -32601

====
